---- MODULE Spec2Model ----
(***************************************************************************)
(* Electastic renderer: the connection helpers (createConnection,          *)
(* reconnectBle, safeDisconnect), the AdminPanel confirmation dialog and   *)
(* the MapPanel view persistence and the ChatPanel view state, as state    *)
(* machines.                                                               *)
(*                                                                         *)
(* Async functions are cut at their await points: one action per           *)
(* resumption, the outcome of the awaited promise being the action's input.*)
(* `trace` records, in order, the external calls the running function has  *)
(* made since it was called.                                               *)
(***************************************************************************)
EXTENDS Integers, Sequences, FiniteSets, TLC

\* ------------------------------------------------------------------ bounds

\* Number of BluetoothDevice objects the browser knows about.
MaxDevices == 2
\* Longest text of the AdminPanel's target-node input, in characters.
MaxTargetLen == 2
\* Confirmed multi-step admin actions that have not run to their end yet.
MaxInFlight == 1
\* Mesh nodes in the node list given to MapPanel.
MaxNodes == 2
\* Messages in the list given to ChatPanel.
MaxMsgs == 2
\* The latest reading of the clock (Date.now()); the first is 1.
MaxTime == 2

\* ------------------------------------------------------- program constants

\* const DEFAULT_ZOOM = 12
DEFAULT_ZOOM == 12
\* flyToBounds(bounds, { maxZoom: 15 })
MaxFitZoom == 15

VARIABLES
  \* --- connection helpers (ChatPanel.tsx 872-1023)
  bt,         \* navigator.bluetooth: per device, its gatt object and link state
  libApi,     \* which static factory TransportWebBluetooth offers
  fn,         \* the async function that is running, or "idle"
  pc,         \* the await it is suspended at, or "settled"
  args,       \* its arguments (type, httpAddress)
  transport,  \* createConnection: its local `transport`
  target,     \* reconnectBle: the chosen BluetoothDevice (0: none yet)
  held,       \* the MeshDevice the caller holds (argument of safeDisconnect)
  result,     \* the promise returned by the running function
  trace,      \* external calls made by the running function, in order
  \* --- AdminPanel (AdminPanel.tsx)
  isConnected,    \* prop: a device is connected
  targetNode,     \* useState(""): the target-node input
  pendingAction,  \* useState(null): the action the dialog asks about
  inflight,       \* confirmed actions awaiting a callback's promise
  lastCall,       \* the callback invoked last, and the parity of the count
  uiEvent,        \* the kind of the last event handled
  \* --- MapPanel (MapPanel.tsx)
  nodes,              \* prop: the positions of the mesh nodes, in Map order
  mounted,            \* MapPanel is mounted
  mapCenter,          \* the Leaflet map's view, while mounted
  mapZoom,
  flying,             \* the view an animation in progress ends at, or <<>>
  lastFittedCount,    \* MapFitter's useRef(0)
  savedCenter,        \* module level: <<>> is null, <<c>> a center
  savedZoom,          \* module level: <<>> is null, <<z>> a zoom
  userHasInteracted,  \* module level
  userMoved,          \* the user has panned or zoomed by hand
  fit,                \* the fit MapFitter issued last (its kind, the positions
                      \* fitted and their number), and the parity of the count
  \* --- ChatPanel (ChatPanel.tsx 85-350)
  messages,       \* prop: the ChatMessage list
  myNodeNum,      \* prop: the local node's number, 0 while unknown
  channel,        \* useState(0): the selected channel, -1 for "All"
  viewMode,       \* useState("channels")
  openDmTabs,     \* useState: the DM tabs, in order (kept in localStorage)
  activeDmNode,   \* useState(null)
  replyingTo,     \* useState(null): <<>> is null, <<m>> a message
  searchQuery,    \* useState("")
  sending,        \* the onSend call handleSend awaits, or <<>>
  lastRead,       \* lastReadRef.current: Map channel -> time
  unreadCounts,   \* useState(new Map()): Map channel -> count
  now             \* the clock, Date.now()

connVars == <<bt, libApi, fn, pc, args, transport, target, held, result, trace>>

adminVars == <<isConnected, targetNode, pendingAction, inflight, lastCall, uiEvent>>

mapVars ==
  <<nodes, mounted, mapCenter, mapZoom, flying, lastFittedCount, savedCenter,
    savedZoom, userHasInteracted, userMoved, fit>>

chatVars ==
  <<messages, myNodeNum, channel, viewMode, openDmTabs, activeDmNode, replyingTo,
    searchQuery, sending, lastRead, unreadCounts, now>>

vars == <<connVars, adminVars, mapVars, chatVars>>

\* What the connection helpers, the AdminPanel, the MapPanel and the ChatPanel
\* leave alone.
notConn == <<adminVars, mapVars, chatVars>>
notAdmin == <<connVars, mapVars, chatVars>>
notMap == <<connVars, adminVars, chatVars>>
notChat == <<connVars, adminVars, mapVars>>

\* ------------------------------------------------------------ JS strings
\* A string is a sequence of tokens; String.prototype.includes is
\* "occurs as a contiguous run".

Includes(s, sub) ==
  \E i \in 0..(Len(s) - Len(sub)) :
     \A j \in 1..Len(sub) : s[i + j] = sub[j]

StartsWith(s, sub) ==
  /\ Len(s) >= Len(sub)
  /\ \A j \in 1..Len(sub) : s[j] = sub[j]

\* String.prototype.trim: drop leading and trailing white space.
RECURSIVE TrimStart(_)
TrimStart(s) ==
  IF s # <<>> /\ Head(s) = " " THEN TrimStart(Tail(s)) ELSE s

RECURSIVE TrimEnd(_)
TrimEnd(s) ==
  IF s # <<>> /\ s[Len(s)] = " " THEN TrimEnd(SubSeq(s, 1, Len(s) - 1)) ELSE s

Trim(s) == TrimEnd(TrimStart(s))

\* host.replace(/^https?:\/\//, "")
StripProtocol(s) ==
  IF s # <<>> /\ Head(s) \in {"http://", "https://"} THEN Tail(s) ELSE s

\* host.replace(/\/+$/, "")
RECURSIVE StripTrailingSlashes(_)
StripTrailingSlashes(s) ==
  IF s # <<>> /\ s[Len(s)] = "/"
  THEN StripTrailingSlashes(SubSeq(s, 1, Len(s) - 1))
  ELSE s

\* ------------------------------------------------------- thrown values

MsgNotAFunction == <<"transport.disconnect", "is", "not", "a", "function">>
MsgAlreadyClosed == <<"stream", "has", "already", "been", "closed">>
MsgLocked == <<"stream", "is", "locked">>
MsgGattFailed == <<"GATT", "operation", "failed">>
MsgNotConnected == <<"not", "connected">>

Messages ==
  {MsgNotAFunction, MsgAlreadyClosed, MsgLocked, MsgGattFailed, MsgNotConnected}

\* What a callee can throw: an Error with a message, a bare string, undefined.
Thrown ==
  [kind : {"Error"}, text : Messages]
    \cup [kind : {"string"}, text : {MsgLocked, MsgGattFailed}]
    \cup [kind : {"undefined"}, text : {<<>>}]

\* What the browser and transport factories reject with.
FactoryErrors == {[kind |-> "Error", text |-> MsgGattFailed]}

\* err instanceof Error ? err.message : String(err)
ErrorText(err) ==
  CASE err.kind = "Error" -> err.text
    [] err.kind = "string" -> err.text
    [] OTHER -> <<"undefined">>

Err(text) == [kind |-> "Error", text |-> text]

MsgNoDevice ==
  <<"No", "previously", "connected", "BLE", "device", "found", "for", "reconnection">>
MsgNoFactory ==
  <<"TransportWebBluetooth", "has", "no", "method", "to", "create", "a", "transport">>
MsgNoTransport == <<"Failed", "to", "create", "BLE", "transport", "for", "reconnection">>
MsgAddressRequired == <<"HTTP", "address", "required">>
MsgUnknownType == <<"Unknown", "connection", "type">>

\* ------------------------------------------------------------- objects

BtIds == 1..MaxDevices

NoTransport == [kind |-> "none"]
NoMesh == [transport |-> NoTransport, completed |-> FALSE, configured |-> FALSE]

\* A transport: its kind, the BluetoothDevice whose GATT link carries it
\* (link), the stashed __bluetoothDevice (stash) and whether its toDevice
\* stream is closed.  0 is "no device".
BleTransport(d) == [kind |-> "ble", link |-> d, stash |-> 0, closed |-> FALSE]
SerialTransport == [kind |-> "serial", link |-> 0, stash |-> 0, closed |-> FALSE]
HttpTransport == [kind |-> "http", link |-> 0, stash |-> 0, closed |-> FALSE]

\* One entry of `trace`: the call, the BluetoothDevice it concerns (0: none),
\* whether that device's GATT was connected when the call was made, and, for
\* TransportHTTP.create(host, useTls), its two arguments.
Call(op, d) ==
  [op |-> op, dev |-> d, live |-> IF d \in BtIds THEN bt[d].connected ELSE FALSE,
   host |-> <<>>, tls |-> FALSE]

Pending == [state |-> "pending", error |-> <<>>, device |-> NoMesh]
Resolved(dev) == [state |-> "resolved", error |-> <<>>, device |-> dev]
Rejected(err) == [state |-> "rejected", error |-> ErrorText(err), device |-> NoMesh]

Count(s, op) == Cardinality({i \in 1..Len(s) : s[i].op = op})
Ops(s) == {s[i].op : i \in 1..Len(s)}

\* navigator.bluetooth.getDevices(): the permitted devices, in a fixed order.
GetDevices == {d \in BtIds : bt[d].permitted}

\* devices.find(p): the first device satisfying p, 0 if none.
Find(S) == IF S = {} THEN 0 ELSE CHOOSE d \in S : \A e \in S : d <= e

\* gatt.disconnect(): returns with the link down, or throws (with the link
\* down or still up).
GattOutcomes ==
  {o \in [throws : BOOLEAN, down : BOOLEAN] : ~o.throws => o.down}

AfterGattDisconnect(b, d, o) ==
  [b EXCEPT ![d].connected = IF o.down THEN FALSE ELSE @]

\* httpAddress?: string -- undefined, or a string.
Undefined == [defined |-> FALSE, text |-> <<>>]
Str(s) == [defined |-> TRUE, text |-> s]
NoArgs == [type |-> "none", httpAddress |-> Undefined]

\* ------------------------------------------------------------------ Init

ConnInit ==
  /\ bt \in [BtIds -> [gatt : BOOLEAN, connected : {FALSE}, permitted : BOOLEAN]]
  /\ libApi \in {"createFromDevice", "prepareConnection", "none"}
  /\ fn = "idle"
  /\ pc = "idle"
  /\ args = NoArgs
  /\ transport = NoTransport
  /\ target = 0
  /\ held = NoMesh
  /\ result = Pending
  /\ trace = <<>>

\* ------------------------------------------------- safeDisconnect (995-1023)

\* msg.includes("not a function") || msg.includes("already been closed")
\*   || msg.includes("locked")
Recognised(msg) ==
  \/ Includes(msg, <<"not", "a", "function">>)
  \/ Includes(msg, <<"already", "been", "closed">>)
  \/ Includes(msg, <<"locked">>)

\* Mutant of SdFinally: device.complete() sits at the end of the try body and
\* not in a finally clause, so it is skipped once the catch block has run.
SdCompleteInTry(h, b, tr, completeThrows) ==
  /\ held' = IF Ops(tr) \cap {"toDevice.close", "console.warn"} # {}
             THEN h
             ELSE [h EXCEPT !.completed = IF completeThrows THEN @ ELSE TRUE]
  /\ bt' = b
  /\ trace' = IF Ops(tr) \cap {"toDevice.close", "console.warn"} # {}
              THEN tr
              ELSE Append(tr, Call("device.complete", 0))
  /\ result' = Resolved(NoMesh)
  /\ pc' = "settled"

\* Mutant of SdFinally: device.complete() is called without the try/catch
\* around it, so what it throws rejects the promise.
SdCompleteUnguarded(h, b, tr, completeThrows) ==
  /\ held' = [h EXCEPT !.completed = IF completeThrows THEN @ ELSE TRUE]
  /\ bt' = b
  /\ trace' = Append(tr, Call("device.complete", 0))
  /\ result' = IF completeThrows THEN Rejected(Err(MsgAlreadyClosed))
               ELSE Resolved(NoMesh)
  /\ pc' = "settled"

\* finally { try { device.complete(); } catch { } } -- then the promise settles.
\* h, b, tr: the device, the Bluetooth state and the trace the try/catch left.
SdFinally(h, b, tr, completeThrows) ==
  /\ held' = [h EXCEPT !.completed = IF completeThrows THEN @ ELSE TRUE]
  /\ bt' = b
  /\ trace' = Append(tr, Call("device.complete", 0))
  /\ result' = Resolved(NoMesh)
  /\ pc' = "settled"

\* device.disconnect() of the mesh-client library, when it resolves: the
\* transport implemented disconnect() and took the link and its streams down.
LibraryDisconnected(h) ==
  [h EXCEPT !.transport.closed = TRUE]

LinkDown(b, h) ==
  IF h.transport.link \in BtIds
  THEN [b EXCEPT ![h.transport.link].connected = FALSE]
  ELSE b

\* safeDisconnect(device) is called: runs up to `await device.disconnect()`.
CallSafeDisconnect ==
  /\ UNCHANGED notConn
  /\ fn = "idle"
  /\ held # NoMesh
  /\ fn' = "safeDisconnect"
  /\ pc' = "await disconnect"
  /\ trace' = <<Call("device.disconnect", 0)>>
  /\ result' = Pending
  /\ args' = NoArgs
  /\ target' = 0
  /\ transport' = NoTransport
  /\ UNCHANGED <<bt, libApi, held>>

\* device.disconnect() resolved: the try block ends, finally runs.
SdDisconnectResolved ==
  /\ UNCHANGED notConn
  /\ fn = "safeDisconnect" /\ pc = "await disconnect"
  /\ \E completeThrows \in BOOLEAN :
       SdFinally(LibraryDisconnected(held), LinkDown(bt, held), trace, completeThrows)
  /\ UNCHANGED <<libApi, fn, args, transport, target>>

\* device.disconnect() rejected with err: the catch block, up to
\* `await device.transport.toDevice.close()` or, for an unrecognised message,
\* through console.warn and finally.
SdDisconnectRejected ==
  /\ UNCHANGED notConn
  /\ fn = "safeDisconnect" /\ pc = "await disconnect"
  /\ \E err \in Thrown :
       IF Recognised(ErrorText(err))
       THEN /\ trace' = Append(trace, Call("toDevice.close", 0))
            /\ pc' = "await close"
            /\ UNCHANGED <<held, bt, result>>
       ELSE \E completeThrows \in BOOLEAN :
              SdFinally(held, bt, Append(trace, Call("console.warn", 0)),
                        completeThrows)
  /\ UNCHANGED <<libApi, fn, args, transport, target>>

\* toDevice.close() settled (closeOk: it resolved and the stream is closed;
\* otherwise it rejected and the stream is as it was).  Then the stashed
\* BluetoothDevice's GATT is disconnected if it is connected, and finally runs.
SdCloseSettled ==
  /\ UNCHANGED notConn
  /\ fn = "safeDisconnect" /\ pc = "await close"
  /\ \E closeOk \in BOOLEAN, o \in GattOutcomes, completeThrows \in BOOLEAN :
       LET h == [held EXCEPT !.transport.closed = IF closeOk THEN TRUE ELSE @]
           btDevice == held.transport.stash
       IN  IF btDevice \in BtIds /\ bt[btDevice].gatt /\ bt[btDevice].connected
           THEN SdFinally(h, AfterGattDisconnect(bt, btDevice, o),
                          Append(trace, Call("gatt.disconnect", btDevice)),
                          completeThrows)
           ELSE /\ o = [throws |-> FALSE, down |-> TRUE]
                /\ SdFinally(h, bt, trace, completeThrows)
  /\ UNCHANGED <<libApi, fn, args, transport, target>>

\* The caller takes the settled promise; a resolved MeshDevice becomes the
\* device it holds.  The function's frame (arguments, locals, promise) is gone.
Return ==
  /\ UNCHANGED notConn
  /\ fn # "idle" /\ pc = "settled"
  /\ fn' = "idle"
  /\ pc' = "idle"
  /\ held' = IF result.state = "resolved" /\ result.device # NoMesh
             THEN result.device ELSE held
  /\ args' = NoArgs
  /\ transport' = NoTransport
  /\ target' = 0
  /\ result' = Pending
  /\ trace' = <<>>
  /\ UNCHANGED <<bt, libApi>>

\* The radio link of a connected device drops (out of range, power loss).
GattDrop ==
  /\ UNCHANGED notConn
  /\ \E d \in BtIds :
       /\ bt[d].connected
       /\ bt' = [bt EXCEPT ![d].connected = FALSE]
  /\ UNCHANGED <<libApi, fn, pc, args, transport, target, held, result, trace>>

\* --------------------------------------------------- reconnectBle (951-989)

\* Mutant of ChooseTarget: the first device with a GATT object, connected or
\* not (the fallback alone).
ChooseFirstWithGatt ==
  Find({d \in GetDevices : bt[d].gatt})

\* devices.find(d => d.gatt && !d.gatt.connected)
\*   ?? devices.find(d => d.gatt != null)
ChooseTarget ==
  LET free == {d \in GetDevices : bt[d].gatt /\ ~bt[d].connected}
      any  == {d \in GetDevices : bt[d].gatt}
  IN  IF Find(free) # 0 THEN Find(free) ELSE Find(any)

\* The factory reconnectBle uses: createFromDevice if the library has it,
\* else prepareConnection, else none.
Factory ==
  CASE libApi = "createFromDevice" -> "TransportWebBluetooth.createFromDevice"
    [] libApi = "prepareConnection" -> "TransportWebBluetooth.prepareConnection"
    [] OTHER -> "none"

\* Lines 971-978: start creating the transport from d, or throw if the
\* library has no factory.  tr: the trace so far.
RbStartCreate(d, tr) ==
  IF Factory = "none"
  THEN /\ trace' = tr
       /\ result' = Rejected(Err(MsgNoFactory))
       /\ pc' = "settled"
  ELSE /\ trace' = Append(tr, Call(Factory, d))
       /\ result' = Pending
       /\ pc' = "await transport"

\* Lines 963-967: a connected target is disconnected (errors ignored) and the
\* function waits; otherwise it goes on to create the transport.
RbForceDisconnect(d, tr, o) ==
  IF bt[d].gatt /\ bt[d].connected
  THEN /\ bt' = AfterGattDisconnect(bt, d, o)
       /\ trace' = tr \o <<Call("gatt.disconnect", d), Call("setTimeout", d)>>
       /\ result' = Pending
       /\ pc' = "await timeout"
  ELSE /\ o = [throws |-> FALSE, down |-> TRUE]
       /\ bt' = bt
       /\ RbStartCreate(d, tr)

\* reconnectBle() is called: runs up to `await getDevices()`.
CallReconnectBle ==
  /\ UNCHANGED notConn
  /\ fn = "idle"
  /\ fn' = "reconnectBle"
  /\ pc' = "await getDevices"
  /\ trace' = <<Call("navigator.bluetooth.getDevices", 0)>>
  /\ result' = Pending
  /\ args' = NoArgs
  /\ target' = 0
  /\ transport' = NoTransport
  /\ UNCHANGED <<bt, libApi, held>>

\* getDevices() rejected: reconnectBle rejects with the same error.
RbGetDevicesRejected ==
  /\ UNCHANGED notConn
  /\ fn = "reconnectBle" /\ pc = "await getDevices"
  /\ \E err \in FactoryErrors : result' = Rejected(err)
  /\ pc' = "settled"
  /\ UNCHANGED <<bt, libApi, fn, args, transport, target, held, trace>>

\* getDevices() resolved: choose the target (lines 954-958), then 963-978.
\* The entry "target" of the trace notes the choice and whether the chosen
\* device's GATT was connected.
RbGetDevicesResolved ==
  /\ UNCHANGED notConn
  /\ fn = "reconnectBle" /\ pc = "await getDevices"
  /\ LET d == ChooseTarget
     IN  IF d = 0
         THEN /\ result' = Rejected(Err(MsgNoDevice))
              /\ pc' = "settled"
              /\ UNCHANGED <<bt, target, trace>>
         ELSE /\ target' = d
              /\ \E o \in GattOutcomes :
                   RbForceDisconnect(d, Append(trace, Call("target", d)), o)
  /\ UNCHANGED <<libApi, fn, args, transport, held>>

\* The 500 ms timer fires: lines 971-978.
RbTimeout ==
  /\ UNCHANGED notConn
  /\ fn = "reconnectBle" /\ pc = "await timeout"
  /\ RbStartCreate(target, Append(trace, Call("timeout", target)))
  /\ UNCHANGED <<bt, libApi, fn, args, transport, target, held>>

\* The factory's promise settled.  "transport": gatt.connect() succeeded and a
\* transport came back; "nothing": it resolved with no transport; "rejected".
RbTransportSettled ==
  /\ UNCHANGED notConn
  /\ fn = "reconnectBle" /\ pc = "await transport"
  /\ \/ /\ bt' = [bt EXCEPT ![target].connected = TRUE]
        /\ trace' = Append(trace, Call("new MeshDevice", 0))
        /\ result' = Resolved([transport |-> [BleTransport(target) EXCEPT !.stash = target],
                               completed |-> FALSE, configured |-> FALSE])
     \/ /\ result' = Rejected(Err(MsgNoTransport))
        /\ UNCHANGED <<bt, trace>>
     \/ /\ \E err \in FactoryErrors : result' = Rejected(err)
        /\ UNCHANGED <<bt, trace>>
  /\ pc' = "settled"
  /\ UNCHANGED <<libApi, fn, args, transport, target, held>>

\* ----------------------------------------------- createConnection (890-944)

\* The connection types callers pass; "usb" stands for a value outside
\* ConnectionType.
Types == {"ble", "serial", "http", "usb"}

\* The addresses callers pass: none, the empty string, blanks, a bare host,
\* URLs with a protocol, trailing slashes and surrounding blanks.
Addresses ==
  {Undefined,
   Str(<<>>),
   Str(<<" ">>),
   Str(<<"meshtastic.local">>),
   Str(<<"http://", "meshtastic.local">>),
   Str(<<"https://", "meshtastic.local", "/">>),
   Str(<<" ", "https://", "10.0.0.5", "/", "/", " ">>),
   Str(<<"http://", "https://", "/">>)}

\* !httpAddress
Falsy(a) == ~a.defined \/ a.text = <<>>

\* Lines 924-928: the host handed to TransportHTTP.create.
Host(a) == StripTrailingSlashes(StripProtocol(Trim(a.text)))

\* const useTls = host.startsWith("https://"), after the trim.
UseTls(a) == StartsWith(Trim(a.text), <<"https://">>)

\* Mutant of TransportFactory: the http case lacks the address check.
TransportFactoryUnchecked(type, a) ==
  CASE type = "ble" -> "TransportWebBluetooth.create"
    [] type = "serial" -> "TransportWebSerial.create"
    [] type = "http" -> "TransportHTTP.create"
    [] OTHER -> "throw"

\* The switch of lines 896-935, up to the first await: the factory that is
\* called for the type, "throw" when the function throws before any call.
TransportFactory(type, a) ==
  CASE type = "ble" -> "TransportWebBluetooth.create"
    [] type = "serial" -> "TransportWebSerial.create"
    [] type = "http" -> IF Falsy(a) THEN "throw" ELSE "TransportHTTP.create"
    [] OTHER -> "throw"

\* The call of the factory with its arguments (lines 898, 916, 929).
FactoryCall(type, a) ==
  IF type = "http"
  THEN [Call(TransportFactory(type, a), 0) EXCEPT !.host = Host(a), !.tls = UseTls(a)]
  ELSE Call(TransportFactory(type, a), 0)

\* The error thrown before any call.
SwitchError(type) ==
  IF type = "http" THEN Err(MsgAddressRequired) ELSE Err(MsgUnknownType)

\* Mutant of CcReturnDevice: device.configure() is called before the device
\* is returned.
CcReturnConfigured(t, tr) ==
  /\ trace' = tr \o <<Call("new MeshDevice", 0), Call("device.configure", 0)>>
  /\ result' = Resolved([transport |-> t, completed |-> FALSE, configured |-> TRUE])
  /\ pc' = "settled"

\* Lines 937-943: const device = new MeshDevice(transport); return device.
CcReturnDevice(t, tr) ==
  /\ trace' = Append(tr, Call("new MeshDevice", 0))
  /\ result' = Resolved([transport |-> t, completed |-> FALSE, configured |-> FALSE])
  /\ pc' = "settled"

\* createConnection(type, httpAddress) is called: runs up to the first await.
CallCreateConnection ==
  /\ UNCHANGED notConn
  /\ fn = "idle"
  /\ fn' = "createConnection"
  /\ \E type \in Types, a \in Addresses :
       /\ type # "http" => a = Undefined
       /\ args' = [type |-> type, httpAddress |-> a]
       /\ IF TransportFactory(type, a) = "throw"
          THEN /\ trace' = <<>>
               /\ result' = Rejected(SwitchError(type))
               /\ pc' = "settled"
          ELSE /\ trace' = <<FactoryCall(type, a)>>
               /\ result' = Pending
               /\ pc' = "await transport"
  /\ target' = 0
  /\ transport' = NoTransport
  /\ UNCHANGED <<bt, libApi, held>>

\* The transport factory rejected (the user dismissed the chooser, the port
\* or host could not be opened): createConnection rejects.
CcTransportRejected ==
  /\ UNCHANGED notConn
  /\ fn = "createConnection" /\ pc = "await transport"
  /\ \E err \in FactoryErrors : result' = Rejected(err)
  /\ pc' = "settled"
  /\ UNCHANGED <<bt, libApi, fn, args, transport, target, held, trace>>

\* TransportWebBluetooth.create() resolved: the user chose device d, it is
\* now permitted and its GATT connected.  Lines 902-903: getDevices() is
\* called.
CcBleCreated ==
  /\ UNCHANGED notConn
  /\ fn = "createConnection" /\ pc = "await transport" /\ args.type = "ble"
  /\ \E d \in BtIds :
       /\ bt[d].gatt
       /\ bt' = [bt EXCEPT ![d].connected = TRUE, ![d].permitted = TRUE]
       /\ transport' = BleTransport(d)
  /\ trace' = Append(trace, Call("navigator.bluetooth.getDevices", 0))
  /\ pc' = "await getDevices"
  /\ UNCHANGED <<libApi, fn, args, target, held, result>>

\* getDevices() settled (lines 903-912): the first device whose GATT is
\* connected is stashed on the transport; a rejection is only logged.
CcGetDevicesSettled ==
  /\ UNCHANGED notConn
  /\ fn = "createConnection" /\ pc = "await getDevices"
  /\ \E ok \in BOOLEAN :
       LET connectedDevice == Find({d \in GetDevices : bt[d].gatt /\ bt[d].connected})
       IN  IF ok
           THEN CcReturnDevice([transport EXCEPT !.stash = connectedDevice], trace)
           ELSE CcReturnDevice(transport, Append(trace, Call("console.warn", 0)))
  /\ UNCHANGED <<bt, libApi, fn, args, transport, target, held>>

\* TransportWebSerial.create(115200) or TransportHTTP.create(host, useTls)
\* resolved: lines 937-943.
CcTransportCreated ==
  /\ UNCHANGED notConn
  /\ fn = "createConnection" /\ pc = "await transport"
  /\ args.type \in {"serial", "http"}
  /\ LET t == IF args.type = "serial" THEN SerialTransport ELSE HttpTransport
     IN  /\ transport' = t
         /\ CcReturnDevice(t, trace)
  /\ UNCHANGED <<bt, libApi, fn, args, target, held>>

\* ------------------------------------------------------------- AdminPanel

TargetChars == {"!", "1", "a"}

\* The value of a character as a digit of the radix, -1 if it is none.
Digit(c, radix) ==
  CASE c = "1" -> 1
    [] c = "a" /\ radix = 16 -> 10
    [] OTHER -> -1

RECURSIVE ParsePrefix(_, _, _)
ParsePrefix(s, radix, acc) ==
  IF s = <<>> \/ Digit(Head(s), radix) < 0
  THEN acc
  ELSE ParsePrefix(Tail(s), radix, acc * radix + Digit(Head(s), radix))

\* parseInt(s, radix): the number the longest prefix of digits denotes; NaN
\* (here -1) if s starts with no digit.
ParseInt(s, radix) ==
  IF s = <<>> \/ Digit(Head(s), radix) < 0 THEN -1 ELSE ParsePrefix(s, radix, 0)

\* getTargetNodeNum (lines 112-118).
GetTargetNodeNum(t) ==
  IF t = <<>> THEN 0
  ELSE LET parsed == IF Head(t) = "!" THEN ParseInt(Tail(t), 16) ELSE ParseInt(t, 10)
       IN  IF parsed = -1 THEN 0 ELSE parsed

\* A PendingAction: its name and the callbacks its `action` closure invokes,
\* in order, each awaited before the next.
Cb(cb, arg) == [cb |-> cb, arg |-> arg]
NoAction == [name |-> "none", calls |-> <<>>]

\* The PendingAction each button passes to executeWithConfirmation
\* (lines 147-214, 238-257, 310-365).
ActionOf(button, t) ==
  CASE button = "Reboot" -> [name |-> "Reboot", calls |-> <<Cb("onReboot", 2)>>]
    [] button = "Shutdown" -> [name |-> "Shutdown", calls |-> <<Cb("onShutdown", 2)>>]
    [] button = "Reset NodeDB" ->
         [name |-> "Reset NodeDB", calls |-> <<Cb("onResetNodeDb", 0)>>]
    [] button = "Factory Reset" ->
         [name |-> "Factory Reset", calls |-> <<Cb("onFactoryReset", 0)>>]
    [] button = "Remove Node" ->
         [name |-> "Remove Node", calls |-> <<Cb("onRemoveNode", GetTargetNodeNum(t))>>]
    [] button = "Clear Messages" ->
         [name |-> "Clear Messages", calls |-> <<Cb("clearMessages", 0)>>]
    [] button = "Clear Nodes" ->
         [name |-> "Clear Nodes", calls |-> <<Cb("clearNodes", 0)>>]
    [] button = "Clear All Data" ->
         [name |-> "Clear All Data",
          calls |-> <<Cb("clearMessages", 0), Cb("clearNodes", 0),
                      Cb("clearSessionData", 0)>>]

DeviceButtons == {"Reboot", "Shutdown", "Reset NodeDB", "Factory Reset"}
DataButtons == {"Clear Messages", "Clear Nodes", "Clear All Data"}

AdminInit ==
  /\ isConnected = FALSE
  /\ targetNode = <<>>
  /\ pendingAction = NoAction
  /\ inflight = <<>>
  /\ lastCall = [cb |-> "none", arg |-> 0, tick |-> 0]
  /\ uiEvent = "input"

\* A callback of the props or of window.electronAPI is invoked.
Invoke(c) == [cb |-> c.cb, arg |-> c.arg, tick |-> 1 - lastCall.tick]

\* An action whose first callback has been invoked is in flight if it has
\* callbacks left; with none left, nothing but a toast follows.
Started(q, action) ==
  IF Tail(action.calls) = <<>> THEN q
  ELSE Append(q, [name |-> action.name, rest |-> Tail(action.calls)])

\* Mutant of ExecuteWithConfirmation: the action runs at once, no dialog.
ExecuteImmediately(action) ==
  /\ Len(Started(inflight, action)) <= MaxInFlight
  /\ pendingAction' = pendingAction
  /\ lastCall' = Invoke(action.calls[1])
  /\ inflight' = Started(inflight, action)

\* executeWithConfirmation (lines 91-96): setPendingAction(action).
ExecuteWithConfirmation(action) ==
  /\ pendingAction' = action
  /\ UNCHANGED <<lastCall, inflight>>

\* The device is connected or lost (prop isConnected).
SetConnected ==
  /\ UNCHANGED notAdmin
  /\ isConnected' = ~isConnected
  /\ uiEvent' = "input"
  /\ UNCHANGED <<targetNode, pendingAction, inflight, lastCall>>

\* The target-node input changes (enabled only while connected): a character
\* is typed at the end, or the last one deleted.
TypeTarget ==
  /\ UNCHANGED notAdmin
  /\ isConnected
  /\ \/ /\ Len(targetNode) < MaxTargetLen
        /\ \E c \in TargetChars : targetNode' = Append(targetNode, c)
     \/ /\ targetNode # <<>>
        /\ targetNode' = SubSeq(targetNode, 1, Len(targetNode) - 1)
  /\ uiEvent' = "input"
  /\ UNCHANGED <<isConnected, pendingAction, inflight, lastCall>>

\* Reboot, Shutdown, Reset NodeDB, Factory Reset: enabled while connected.
ClickDeviceCommand ==
  /\ UNCHANGED notAdmin
  /\ isConnected
  /\ \E b \in DeviceButtons :
       /\ ExecuteWithConfirmation(ActionOf(b, targetNode))
  /\ uiEvent' = "click"
  /\ UNCHANGED <<isConnected, targetNode>>

\* Remove Node (lines 238-257): a dialog if the input names a node, else
\* only a warning toast.
ClickRemoveNode ==
  /\ UNCHANGED notAdmin
  /\ isConnected /\ targetNode # <<>>
  /\ IF GetTargetNodeNum(targetNode) # 0
     THEN ExecuteWithConfirmation(ActionOf("Remove Node", targetNode))
     ELSE UNCHANGED <<pendingAction, inflight, lastCall>>
  /\ uiEvent' = "click"
  /\ UNCHANGED <<isConnected, targetNode>>

\* Trace Route (lines 216-236): onTraceRoute is called at once, no dialog.
ClickTraceRoute ==
  /\ UNCHANGED notAdmin
  /\ isConnected /\ targetNode # <<>>
  /\ IF GetTargetNodeNum(targetNode) # 0
     THEN /\ lastCall' = Invoke(Cb("onTraceRoute", GetTargetNodeNum(targetNode)))
          /\ UNCHANGED inflight
     ELSE UNCHANGED <<inflight, lastCall>>
  /\ uiEvent' = "click"
  /\ UNCHANGED <<isConnected, targetNode, pendingAction>>

\* Clear Messages, Clear Nodes, Clear All Local Data: always enabled.
ClickDataCommand ==
  /\ UNCHANGED notAdmin
  /\ \E b \in DataButtons :
       /\ ExecuteWithConfirmation(ActionOf(b, targetNode))
  /\ uiEvent' = "click"
  /\ UNCHANGED <<isConnected, targetNode>>

\* handleConfirm (lines 98-110), up to `await pendingAction.action()`: the
\* dialog closes and the action's first callback is invoked.
HandleConfirm ==
  /\ UNCHANGED notAdmin
  /\ pendingAction # NoAction
  /\ Len(Started(inflight, pendingAction)) <= MaxInFlight
  /\ pendingAction' = NoAction
  /\ lastCall' = Invoke(pendingAction.calls[1])
  /\ inflight' = Started(inflight, pendingAction)
  /\ uiEvent' = "confirm"
  /\ UNCHANGED <<isConnected, targetNode>>

\* onCancel (line 377), from the Cancel button or the backdrop.
HandleCancel ==
  /\ UNCHANGED notAdmin
  /\ pendingAction # NoAction
  /\ pendingAction' = NoAction
  /\ \E from \in {"cancel", "backdrop"} : uiEvent' = from
  /\ UNCHANGED <<isConnected, targetNode, inflight, lastCall>>

Remove(q, k) == SubSeq(q, 1, k - 1) \o SubSeq(q, k + 1, Len(q))

\* The promise an action in flight awaits settles: resolved, the action's
\* next callback is invoked; rejected, the action is over.
ActionSettles ==
  /\ UNCHANGED notAdmin
  /\ \E k \in 1..Len(inflight), ok \in BOOLEAN :
       LET f == inflight[k]
       IN  IF ok
           THEN /\ lastCall' = Invoke(Head(f.rest))
                /\ inflight' = IF Tail(f.rest) = <<>> THEN Remove(inflight, k)
                               ELSE [inflight EXCEPT ![k].rest = Tail(f.rest)]
           ELSE /\ inflight' = Remove(inflight, k)
                /\ UNCHANGED lastCall
  /\ uiEvent' = "settle"
  /\ UNCHANGED <<isConnected, targetNode, pendingAction>>

AdminNext ==
  \/ SetConnected
  \/ TypeTarget
  \/ ClickDeviceCommand
  \/ ClickRemoveNode
  \/ ClickTraceRoute
  \/ ClickDataCommand
  \/ HandleConfirm
  \/ HandleCancel
  \/ ActionSettles

\* --------------------------------------------------------------- MapPanel
\* Centers are in half degrees, so that the middle of two nodes is a whole
\* number.

\* const DEFAULT_CENTER = [40.1672, -105.1019]
DEFAULT_CENTER == [lat |-> 80, lng |-> -210]

\* The positions nodes report: no fix, half a fix, and two places.
Positions ==
  {[lat |-> 0, lng |-> 0], [lat |-> 0, lng |-> 1],
   [lat |-> 1, lng |-> 1], [lat |-> 2, lng |-> 1]}

\* Where the user drags the map to, and the zoom levels the user picks.
PanTargets == {[lat |-> 1, lng |-> 1], [lat |-> 2, lng |-> 2]}
ZoomLevels == {0, DEFAULT_ZOOM + 1}

CenterOf(p) == [lat |-> 2 * p.lat, lng |-> 2 * p.lng]

\* filter(p, q): the elements of q that satisfy p, in order.
RECURSIVE WithPosition(_)
WithPosition(q) ==
  IF q = <<>> THEN <<>>
  ELSE IF Head(q).lat # 0 /\ Head(q).lng # 0
       THEN <<Head(q)>> \o WithPosition(Tail(q))
       ELSE WithPosition(Tail(q))

\* nodesWithPosition / positions (lines 130-141).
NodePositions == WithPosition(nodes)

Min(a, b) == IF a <= b THEN a ELSE b
MinOf(S) == CHOOSE x \in S : \A y \in S : x <= y
MaxOf(S) == CHOOSE x \in S : \A y \in S : x >= y

\* L.latLngBounds(positions): the middle of the bounds, and the zoom
\* flyToBounds ends at -- the closest one showing the bounds, at most maxZoom.
BoundsView(ps) ==
  LET lats == {ps[i].lat : i \in 1..Len(ps)}
      lngs == {ps[i].lng : i \in 1..Len(ps)}
      span == (MaxOf(lats) - MinOf(lats)) + (MaxOf(lngs) - MinOf(lngs))
  IN  [center |-> [lat |-> MinOf(lats) + MaxOf(lats), lng |-> MinOf(lngs) + MaxOf(lngs)],
       zoom |-> Min(MaxFitZoom, MaxFitZoom + 1 - span)]

\* Mutant of InitialCenter: the first node's position wins over the saved
\* center.
InitialCenterFromNodes ==
  IF NodePositions # <<>> THEN CenterOf(NodePositions[1])
  ELSE IF savedCenter # <<>> THEN savedCenter[1] ELSE DEFAULT_CENTER

\* center={savedCenter ?? center} (lines 144-147, 187).
InitialCenter ==
  IF savedCenter # <<>> THEN savedCenter[1]
  ELSE IF NodePositions # <<>> THEN CenterOf(NodePositions[1]) ELSE DEFAULT_CENTER

\* Mutant of InitialZoom: savedZoom || DEFAULT_ZOOM.
InitialZoomOr ==
  IF savedZoom # <<>> /\ savedZoom[1] # 0 THEN savedZoom[1] ELSE DEFAULT_ZOOM

\* zoom={savedZoom ?? DEFAULT_ZOOM} (line 188).
InitialZoom ==
  IF savedZoom # <<>> THEN savedZoom[1] ELSE DEFAULT_ZOOM

\* Mutant of FitDue: the userHasInteracted check is missing.
FitDueIgnoringUser(ps, last) ==
  /\ Len(ps) # 0
  /\ Len(ps) > last

\* The guards of MapFitter's effect (lines 114-117).
FitDue(ps, last) ==
  /\ ~userHasInteracted
  /\ Len(ps) # 0
  /\ Len(ps) > last

\* MapFitter's effect (lines 112-125) with positions ps, the ref holding
\* `last` and the map at zoom z.
MapFitterEffect(ps, last, z) ==
  IF FitDue(ps, last)
  THEN /\ lastFittedCount' = Len(ps)
       /\ flying' = IF Len(ps) = 1
                    THEN <<[center |-> CenterOf(ps[1]), zoom |-> z]>>
                    ELSE <<BoundsView(ps)>>
       /\ fit' = [kind |-> IF Len(ps) = 1 THEN "flyTo" ELSE "flyToBounds",
                  n |-> Len(ps), at |-> ps, tick |-> 1 - fit.tick]
  ELSE /\ lastFittedCount' = last
       /\ UNCHANGED <<flying, fit>>

\* MapViewTracker's moveend and zoomend handlers (lines 92-103), the map being
\* at center c and zoom z.
ViewTracked(c, z) ==
  /\ savedCenter' = <<c>>
  /\ savedZoom' = <<z>>
  /\ userHasInteracted' = TRUE

MapInit ==
  /\ nodes = <<>>
  /\ mounted = FALSE
  /\ mapCenter = DEFAULT_CENTER
  /\ mapZoom = DEFAULT_ZOOM
  /\ flying = <<>>
  /\ lastFittedCount = 0
  /\ savedCenter = <<>>
  /\ savedZoom = <<>>
  /\ userHasInteracted = FALSE
  /\ userMoved = FALSE
  /\ fit = [kind |-> "none", n |-> 0, at |-> <<>>, tick |-> 0]

\* MapPanel mounts (the Map tab is opened): MapContainer creates the map with
\* its center and zoom props, MapFitter's ref starts at 0 and its effect runs.
Mount ==
  /\ UNCHANGED notMap
  /\ ~mounted
  /\ mounted' = TRUE
  /\ mapCenter' = InitialCenter
  /\ mapZoom' = InitialZoom
  /\ MapFitterEffect(NodePositions, 0, InitialZoom)
  /\ UNCHANGED <<nodes, savedCenter, savedZoom, userHasInteracted, userMoved>>

\* MapPanel unmounts (another tab is opened): the map and the ref are gone.
Unmount ==
  /\ UNCHANGED notMap
  /\ mounted
  /\ mounted' = FALSE
  /\ mapCenter' = DEFAULT_CENTER
  /\ mapZoom' = DEFAULT_ZOOM
  /\ flying' = <<>>
  /\ lastFittedCount' = 0
  /\ UNCHANGED <<nodes, savedCenter, savedZoom, userHasInteracted, userMoved, fit>>

\* The `nodes` prop changes to q.  Mounted, MapPanel renders again and
\* MapFitter's effect runs if positions.length changed (line 125).
NodesChange(q) ==
  /\ nodes' = q
  /\ IF mounted /\ Len(WithPosition(q)) # Len(NodePositions)
     THEN MapFitterEffect(WithPosition(q), lastFittedCount, mapZoom)
     ELSE UNCHANGED <<lastFittedCount, flying, fit>>
  /\ UNCHANGED <<mounted, mapCenter, mapZoom, savedCenter, savedZoom,
                 userHasInteracted, userMoved>>

\* A node is heard for the first time.
NodeAdded ==
  /\ UNCHANGED notMap
  /\ Len(nodes) < MaxNodes
  /\ \E p \in Positions : NodesChange(Append(nodes, p))

\* A node reports another position, or loses its fix.
NodeMoved ==
  /\ UNCHANGED notMap
  /\ \E i \in 1..Len(nodes), p \in Positions :
       /\ p # nodes[i]
       /\ NodesChange([nodes EXCEPT ![i] = p])

\* A node is removed from the node list.
NodeRemoved ==
  /\ UNCHANGED notMap
  /\ \E i \in 1..Len(nodes) :
       NodesChange(SubSeq(nodes, 1, i - 1) \o SubSeq(nodes, i + 1, Len(nodes)))

\* The user drags the map to c: an animation in progress stops, moveend fires.
UserPan ==
  /\ UNCHANGED notMap
  /\ mounted
  /\ \E c \in PanTargets :
       /\ c # mapCenter
       /\ mapCenter' = c
       /\ ViewTracked(c, mapZoom)
  /\ flying' = <<>>
  /\ userMoved' = TRUE
  /\ UNCHANGED <<nodes, mounted, mapZoom, lastFittedCount, fit>>

\* The user zooms to z: zoomend and moveend fire.
UserZoom ==
  /\ UNCHANGED notMap
  /\ mounted
  /\ \E z \in ZoomLevels :
       /\ z # mapZoom
       /\ mapZoom' = z
       /\ ViewTracked(mapCenter, z)
  /\ flying' = <<>>
  /\ userMoved' = TRUE
  /\ UNCHANGED <<nodes, mounted, mapCenter, lastFittedCount, fit>>

\* The animation of a flyTo or flyToBounds ends: the map is at the view flown
\* to and Leaflet fires zoomend and moveend, as for any move.
FlyEnd ==
  /\ UNCHANGED notMap
  /\ mounted
  /\ flying # <<>>
  /\ mapCenter' = flying[1].center
  /\ mapZoom' = flying[1].zoom
  /\ ViewTracked(flying[1].center, flying[1].zoom)
  /\ flying' = <<>>
  /\ UNCHANGED <<nodes, mounted, lastFittedCount, userMoved, fit>>

MapNext ==
  \/ Mount
  \/ Unmount
  \/ NodeAdded
  \/ NodeMoved
  \/ NodeRemoved
  \/ UserPan
  \/ UserZoom
  \/ FlyEnd

\* -------------------------------------------------------------- ChatPanel
\* The view state of ChatPanel (lines 85-350).  A user event or a change of
\* props is one action: the handler's state updates, the render that follows
\* and the effects that render triggers.

\* undefined or null where the code expects a number (to, emoji, replyId,
\* packetId, activeDmNode).
Absent == -1
\* A number in a condition: undefined, null and 0 are falsy.
Truthy(n) == n # Absent /\ n # 0

\* The local node's number once the device has reported it.
Me == 1
\* The other nodes of the mesh.
Peers == {2, 3, 4}
\* The `channels` prop: the indices of the device's channels.
Channels == {0, 1}
\* setChannel(-1): the "All" button.
AllChannels == -1

\* String.prototype.toLowerCase.
ToLowerCase(s) ==
  [i \in 1..Len(s) |->
     IF s[i] = "H" THEN "h" ELSE IF s[i] = "B" THEN "b" ELSE s[i]]

\* The search texts the user types.
Queries == {<<>>, <<" ">>, <<"h">>}

\* The ChatMessage objects the mesh delivers, before they get their timestamp:
\* broadcasts of a peer and of the local node, an emoji without a replyId, DMs
\* to and from the local node (one of them a reply), a DM between two peers,
\* and reactions (emoji and replyId) on a channel and in a DM.
Msg(pid, from, name, text, ch, dest, emo, reply, st) ==
  [packetId |-> pid, sender_id |-> from, sender_name |-> name, payload |-> text,
   channel |-> ch, to |-> dest, emoji |-> emo, replyId |-> reply, status |-> st]

PeerOnChannel0 == Msg(1, 2, <<"B", "o">>, <<"H", "i">>, 0, Absent, Absent, Absent, "none")
EmojiOnChannel1 == Msg(2, 2, <<"B", "o">>, <<"x">>, 1, Absent, 1, 0, "none")
OwnOnChannel0 == Msg(3, Me, <<"m">>, <<"h", "i">>, 0, Absent, Absent, Absent, "sending")
ReplyDmToMe == Msg(4, 2, <<"B", "o">>, <<"y">>, 0, Me, Absent, 1, "none")
OwnDm == Msg(5, Me, <<"m">>, <<"h">>, 0, 2, Absent, Absent, "sending")
PeerToPeerDm == Msg(6, 3, <<"c">>, <<"z">>, 1, 2, Absent, Absent, "none")
ReactionOnChannel0 == Msg(7, 2, <<"B", "o">>, <<>>, 0, Absent, 1, 1, "none")
ReactionInDm == Msg(Absent, 2, <<"B", "o">>, <<>>, 0, Me, 2, 4, "none")

Shapes ==
  {PeerOnChannel0, EmojiOnChannel1, OwnOnChannel0, ReplyDmToMe, OwnDm,
   PeerToPeerDm, ReactionOnChannel0, ReactionInDm}

\* The shapes the unread counts tell apart, and those a reply needs.
UnreadShapes ==
  {PeerOnChannel0, EmojiOnChannel1, OwnOnChannel0, ReplyDmToMe, ReactionOnChannel0}
ReplyShapes == {PeerOnChannel0, EmojiOnChannel1, ReplyDmToMe}

\* A message of shape s that got the timestamp t.
Stamped(s, t) == [timestamp |-> t] @@ s

\* Map.get(k) ?? d
GetOr(map, k, d) == IF k \in DOMAIN map THEN map[k] ELSE d

\* Map.set(k, v)
MapSet(map, k, v) == [x \in DOMAIN map \cup {k} |-> IF x = k THEN v ELSE map[x]]

\* Map.delete(k)
MapDelete(map, k) == [x \in DOMAIN map \ {k} |-> map[x]]

\* new Map()
EmptyMap == [x \in {} |-> 0]

\* Array.prototype.filter(n => n !== x)
Without(q, x) == SelectSeq(q, LAMBDA n : n # x)

\* Array.prototype.includes
InSeq(q, x) == \E i \in 1..Len(q) : q[i] = x

\* Mutant of IsReaction: an emoji alone makes a reaction.
IsReactionByEmoji(m) == Truthy(m.emoji)

\* if (msg.emoji && msg.replyId) (line 164)
IsReaction(m) == Truthy(m.emoji) /\ Truthy(m.replyId)

\* regularMessages (lines 157, 163-172): the messages pushed to `regular`.
RegularMessages(msgs) == SelectSeq(msgs, LAMBDA m : ~IsReaction(m))

\* reactionsByReplyId (lines 158-167): per replyId, the reactions in the order
\* of the messages.
ReactionsByReplyId(msgs) ==
  LET rx == SelectSeq(msgs, IsReaction)
  IN  [r \in {rx[i].replyId : i \in 1..Len(rx)} |->
         LET of == SelectSeq(rx, LAMBDA m : m.replyId = r)
         IN  [i \in 1..Len(of) |->
                [emoji |-> of[i].emoji, sender_name |-> of[i].sender_name]]]

\* The DM filter (lines 208-210).
DmFilter(m, active, my) ==
  \/ m.to = active /\ m.sender_id = my
  \/ m.sender_id = active /\ m.to = my

\* Mutant of ChannelFilter: the destination is not looked at.
ChannelFilterAnyDest(m, ch) ==
  ch = AllChannels \/ m.channel = ch

\* The channel filter (line 215).
ChannelFilter(m, ch) ==
  ~Truthy(m.to) /\ (ch = AllChannels \/ m.channel = ch)

\* The search filter (lines 219-226).
SearchFilter(msgs, query) ==
  IF Trim(query) # <<>>
  THEN LET q == ToLowerCase(query)
       IN  SelectSeq(msgs, LAMBDA m : \/ Includes(ToLowerCase(m.payload), q)
                                      \/ Includes(ToLowerCase(m.sender_name), q))
  ELSE msgs

\* filteredMessages (lines 202-228).
FilteredMessages(msgs, ch, query, vm, active, my) ==
  LET regular == RegularMessages(msgs)
  IN  SearchFilter(
        IF vm = "dm" /\ active # Absent
        THEN SelectSeq(regular, LAMBDA m : DmFilter(m, active, my))
        ELSE SelectSeq(regular, LAMBDA m : ChannelFilter(m, ch)),
        query)

\* The messages on screen.
Visible ==
  FilteredMessages(messages, channel, searchQuery, viewMode, activeDmNode, myNodeNum)

\* Mutant of UnreadEffect: the local node's own messages count too.
UnreadEffectCountsOwn(regular, my, lr) ==
  LET counted(c) ==
        {i \in 1..Len(regular) :
           /\ ~Truthy(regular[i].to)
           /\ regular[i].channel = c
           /\ regular[i].timestamp > GetOr(lr, c, 0)}
  IN  [c \in {regular[i].channel : i \in {i \in 1..Len(regular) :
                                           counted(regular[i].channel) # {}}} |->
         Cardinality(counted(c))]

\* The unread counts effect (lines 176-187): the Map given to setUnreadCounts.
UnreadEffect(regular, my, lr) ==
  LET counted(c) ==
        {i \in 1..Len(regular) :
           /\ regular[i].sender_id # my
           /\ ~Truthy(regular[i].to)
           /\ regular[i].channel = c
           /\ regular[i].timestamp > GetOr(lr, c, 0)}
  IN  [c \in {regular[i].channel : i \in {i \in 1..Len(regular) :
                                           counted(regular[i].channel) # {}}} |->
         Cardinality(counted(c))]

\* Mutant of ReplyClearDeps: the active DM node is not a dependency.
ReplyClearDepsNoDm(ch, vm, active) == <<ch, vm>>

\* The dependencies of the reply clearing effect (line 132).
ReplyClearDeps(ch, vm, active) == <<ch, vm, active>>

\* The dependencies of the mark-read effect (line 200).
MarkReadDeps(ch, regular, vm) == <<ch, Len(regular), vm>>

\* ChatPanel renders with the props msgs2 (a new array if `fresh`) and my2 and
\* the state ch2, vm2, active2, reply2, and the effects of lines 130-132,
\* 176-187 and 190-200 run, in this order, for the dependencies that changed.
Rendered(msgs2, fresh, my2, ch2, vm2, active2, reply2) ==
  LET regular == RegularMessages(messages)
      regular2 == RegularMessages(msgs2)
      counts == IF fresh \/ my2 # myNodeNum
                THEN UnreadEffect(regular2, my2, lastRead)
                ELSE unreadCounts
      marks == /\ MarkReadDeps(ch2, regular2, vm2) # MarkReadDeps(channel, regular, viewMode)
               /\ vm2 = "channels"
  IN  /\ messages' = msgs2
      /\ myNodeNum' = my2
      /\ channel' = ch2
      /\ viewMode' = vm2
      /\ activeDmNode' = active2
      /\ replyingTo' =
           IF ReplyClearDeps(ch2, vm2, active2) # ReplyClearDeps(channel, viewMode, activeDmNode)
           THEN <<>>
           ELSE reply2
      /\ lastRead' = IF marks THEN MapSet(lastRead, ch2, now) ELSE lastRead
      /\ unreadCounts' = IF marks THEN MapDelete(counts, ch2) ELSE counts

\* The state changes to (ch2, vm2, active2), props as they are.
ViewChanges(ch2, vm2, active2) ==
  Rendered(messages, FALSE, myNodeNum, ch2, vm2, active2, replyingTo)

\* The messages prop changes to msgs2.
MessagesChange(msgs2) ==
  /\ Rendered(msgs2, TRUE, myNodeNum, channel, viewMode, activeDmNode, replyingTo)
  /\ UNCHANGED <<openDmTabs, searchQuery, sending, now>>

\* ChatPanel after its first render and effects (lines 97-136, 176-200): no
\* message yet, the local node known, no DM tab saved.
ChatInit ==
  /\ messages = <<>>
  /\ myNodeNum = Me
  /\ channel = 0
  /\ viewMode = "channels"
  /\ openDmTabs = <<>>
  /\ activeDmNode = Absent
  /\ replyingTo = <<>>
  /\ searchQuery = <<>>
  /\ sending = <<>>
  /\ now = 1
  /\ lastRead = MapSet(EmptyMap, 0, 1)
  /\ unreadCounts = EmptyMap

\* The times the state holds: Date.now() as read by the mark-read effect, and
\* the timestamps of the messages.
Recorded ==
  {lastRead[c] : c \in DOMAIN lastRead} \cup
  {messages[i].timestamp : i \in 1..Len(messages)}

\* Time passes, after a reading of the clock was recorded.
Tick ==
  /\ UNCHANGED notChat
  /\ now < MaxTime
  /\ now \in Recorded
  /\ now' = now + 1
  /\ UNCHANGED <<messages, myNodeNum, channel, viewMode, openDmTabs, activeDmNode,
                 replyingTo, searchQuery, sending, lastRead, unreadCounts>>

\* A message of one of the shapes in pool arrives: the parent appends it to
\* the list.
MessageArrives(pool) ==
  /\ UNCHANGED notChat
  /\ Len(messages) < MaxMsgs
  /\ \E s \in pool : MessagesChange(Append(messages, Stamped(s, now)))

\* A message is removed from the list.
MessageRemoved ==
  /\ UNCHANGED notChat
  /\ \E i \in 1..Len(messages) :
       MessagesChange(SubSeq(messages, 1, i - 1) \o SubSeq(messages, i + 1, Len(messages)))

\* A message of the list is replaced by one that arrives.
MessageReplaced(pool) ==
  /\ UNCHANGED notChat
  /\ \E i \in 1..Len(messages), s \in pool :
       /\ Stamped(s, now) # messages[i]
       /\ MessagesChange([messages EXCEPT ![i] = Stamped(s, now)])

\* The status of a message the local node sent is updated.
MessageStatusUpdated ==
  /\ UNCHANGED notChat
  /\ \E i \in 1..Len(messages) :
       /\ messages[i].status = "sending"
       /\ MessagesChange([messages EXCEPT ![i].status = "acked"])

\* The myNodeNum prop changes: the device reports its number, or is gone.
MyNodeNumChanges ==
  /\ UNCHANGED notChat
  /\ \E my2 \in {0, Me} \ {myNodeNum} :
       Rendered(messages, FALSE, my2, channel, viewMode, activeDmNode, replyingTo)
  /\ UNCHANGED <<openDmTabs, searchQuery, sending, now>>

\* The "All" button (line 405).
SelectAll ==
  /\ UNCHANGED notChat
  /\ ViewChanges(AllChannels, "channels", activeDmNode)
  /\ UNCHANGED <<openDmTabs, searchQuery, sending, now>>

\* A channel button (line 419).
SelectChannel ==
  /\ UNCHANGED notChat
  /\ \E c \in Channels : ViewChanges(c, "channels", activeDmNode)
  /\ UNCHANGED <<openDmTabs, searchQuery, sending, now>>

\* A DM tab (line 474).
SelectDmTab ==
  /\ UNCHANGED notChat
  /\ \E i \in 1..Len(openDmTabs) : ViewChanges(channel, "dm", openDmTabs[i])
  /\ UNCHANGED <<openDmTabs, searchQuery, sending, now>>

\* The tab of nodeNum is added if it is not open, and made the active one
\* (lines 146-150 and 330-334).
DmOpened(nodeNum) ==
  /\ openDmTabs' = IF InSeq(openDmTabs, nodeNum)
                   THEN openDmTabs
                   ELSE Append(openDmTabs, nodeNum)
  /\ ViewChanges(channel, "dm", nodeNum)
  /\ UNCHANGED <<searchQuery, sending, now>>

\* openDmTo (lines 329-335): the "Direct message" button of a message on
\* screen that is not the local node's own (line 709).
OpenDmTo ==
  /\ UNCHANGED notChat
  /\ \E i \in 1..Len(Visible) :
       /\ Visible[i].sender_id # myNodeNum
       /\ DmOpened(Visible[i].sender_id)

\* The initialDmTarget effect (lines 144-153): the Nodes tab asks for a DM.
DmTargetFromNodes ==
  /\ UNCHANGED notChat
  /\ \E n \in Peers : DmOpened(n)

\* Mutant of NextActive: the first remaining tab.
NextActiveFirst(remaining) == remaining[1]

\* remaining[remaining.length - 1] (line 344)
NextActive(remaining) == remaining[Len(remaining)]

\* closeDmTab (lines 338-350).
CloseDmTab ==
  /\ UNCHANGED notChat
  /\ \E i \in 1..Len(openDmTabs) :
       LET nodeNum == openDmTabs[i]
           remaining == Without(openDmTabs, nodeNum)
       IN  /\ openDmTabs' = Without(openDmTabs, nodeNum)
           /\ IF activeDmNode = nodeNum
              THEN IF Len(remaining) > 0
                   THEN ViewChanges(channel, viewMode, NextActive(remaining))
                   ELSE ViewChanges(channel, "channels", Absent)
              ELSE ViewChanges(channel, viewMode, activeDmNode)
  /\ UNCHANGED <<searchQuery, sending, now>>

\* The "Reply" button of a message on screen (line 690).
PickReply ==
  /\ UNCHANGED notChat
  /\ \E i \in 1..Len(Visible) :
       /\ replyingTo # <<Visible[i]>>
       /\ replyingTo' = <<Visible[i]>>
  /\ UNCHANGED <<messages, myNodeNum, channel, viewMode, openDmTabs, activeDmNode,
                 searchQuery, sending, lastRead, unreadCounts, now>>

\* The close button of the reply bar (line 817).
CancelReply ==
  /\ UNCHANGED notChat
  /\ replyingTo # <<>>
  /\ replyingTo' = <<>>
  /\ UNCHANGED <<messages, myNodeNum, channel, viewMode, openDmTabs, activeDmNode,
                 searchQuery, sending, lastRead, unreadCounts, now>>

\* The Escape key (lines 263-273) while the search bar is closed: it clears
\* the reply, or else leaves the DM view.
Escape ==
  /\ UNCHANGED notChat
  /\ IF replyingTo # <<>>
     THEN Rendered(messages, FALSE, myNodeNum, channel, viewMode, activeDmNode, <<>>)
     ELSE /\ viewMode = "dm"
          /\ ViewChanges(channel, "channels", activeDmNode)
  /\ UNCHANGED <<openDmTabs, searchQuery, sending, now>>

\* The search input (line 495).
TypeSearch ==
  /\ UNCHANGED notChat
  /\ \E q \in Queries :
       /\ q # searchQuery
       /\ searchQuery' = q
  /\ UNCHANGED <<messages, myNodeNum, channel, viewMode, openDmTabs, activeDmNode,
                 replyingTo, sending, lastRead, unreadCounts, now>>

\* The arguments handleSend gives onSend (lines 295-297).
SendArgs ==
  [channel |-> IF channel = AllChannels THEN 0 ELSE channel,
   destination |-> IF viewMode = "dm" /\ activeDmNode # Absent
                   THEN activeDmNode ELSE Absent,
   replyId |-> IF replyingTo = <<>> THEN Absent ELSE replyingTo[1].packetId]

\* handleSend up to its await (lines 291-297), the input holding text and the
\* device being connected.
HandleSend ==
  /\ UNCHANGED notChat
  /\ sending = <<>>
  /\ sending' = <<SendArgs>>
  /\ UNCHANGED <<messages, myNodeNum, channel, viewMode, openDmTabs, activeDmNode,
                 replyingTo, searchQuery, lastRead, unreadCounts, now>>

\* handleSend after its await (lines 298-304): onSend resolved or rejected.
SendSettled ==
  /\ UNCHANGED notChat
  /\ sending # <<>>
  /\ sending' = <<>>
  /\ \E resolved \in BOOLEAN :
       replyingTo' = IF resolved THEN <<>> ELSE replyingTo
  /\ UNCHANGED <<messages, myNodeNum, channel, viewMode, openDmTabs, activeDmNode,
                 searchQuery, lastRead, unreadCounts, now>>

\* The message views of ChatPanel, the clock standing still.
ChatNext ==
  \/ MessageArrives(Shapes)
  \/ MessageRemoved
  \/ MyNodeNumChanges
  \/ SelectAll
  \/ SelectChannel
  \/ OpenDmTo
  \/ Escape
  \/ TypeSearch

\* The unread tracking of ChatPanel, the clock running.
UnreadNext ==
  \/ Tick
  \/ MessageArrives(UnreadShapes)
  \/ MessageRemoved
  \/ MessageReplaced(UnreadShapes)
  \/ MessageStatusUpdated
  \/ SelectChannel
  \/ OpenDmTo
  \/ Escape

\* Replying and sending in ChatPanel.
ReplyNext ==
  \/ MessageArrives(ReplyShapes)
  \/ SelectAll
  \/ SelectChannel
  \/ OpenDmTo
  \/ DmTargetFromNodes
  \/ SelectDmTab
  \/ CloseDmTab
  \/ PickReply
  \/ CancelReply
  \/ Escape
  \/ HandleSend
  \/ SendSettled

\* The DM tabs of ChatPanel, without messages.
DmNext ==
  \/ DmTargetFromNodes
  \/ SelectDmTab
  \/ CloseDmTab
  \/ SelectAll
  \/ SelectChannel
  \/ Escape

\* ------------------------------------------------------------ specification

ConnNext ==
  \/ CallCreateConnection
  \/ CcTransportRejected
  \/ CcBleCreated
  \/ CcGetDevicesSettled
  \/ CcTransportCreated
  \/ CallReconnectBle
  \/ RbGetDevicesRejected
  \/ RbGetDevicesResolved
  \/ RbTimeout
  \/ RbTransportSettled
  \/ CallSafeDisconnect
  \/ SdDisconnectResolved
  \/ SdDisconnectRejected
  \/ SdCloseSettled
  \/ Return
  \/ GattDrop

\* At rest: no function of the connection helpers is running.
ConnIdle ==
  /\ bt = [d \in BtIds |-> [gatt |-> TRUE, connected |-> FALSE, permitted |-> FALSE]]
  /\ libApi = "createFromDevice"
  /\ fn = "idle"
  /\ pc = "idle"
  /\ args = NoArgs
  /\ transport = NoTransport
  /\ target = 0
  /\ held = NoMesh
  /\ result = Pending
  /\ trace = <<>>

InitConn == ConnInit /\ AdminInit /\ MapInit /\ ChatInit

SpecConn == InitConn /\ [][ConnNext]_vars

InitAdmin == ConnIdle /\ AdminInit /\ MapInit /\ ChatInit

SpecAdmin == InitAdmin /\ [][AdminNext]_vars

InitMap == ConnIdle /\ AdminInit /\ MapInit /\ ChatInit

SpecMap == InitMap /\ [][MapNext]_vars

InitChat == ConnIdle /\ AdminInit /\ MapInit /\ ChatInit

SpecChat == InitChat /\ [][ChatNext]_vars

InitUnread == ConnIdle /\ AdminInit /\ MapInit /\ ChatInit

SpecUnread == InitUnread /\ [][UnreadNext]_vars

InitReply == ConnIdle /\ AdminInit /\ MapInit /\ ChatInit

SpecReply == InitReply /\ [][ReplyNext]_vars

InitDm == ConnIdle /\ AdminInit /\ MapInit /\ ChatInit

SpecDm == InitDm /\ [][DmNext]_vars

\* ------------------------------------------------------------------ claims

Settled == pc = "settled"

\* C1. safeDisconnect calls device.complete() exactly once before its promise
\* settles, however device.disconnect() and the fallback steps end: it is
\* never called twice, and when the promise has settled it has been called
\* once, as the last call made.
C1_CompleteExactlyOnce ==
  fn = "safeDisconnect" =>
    /\ Count(trace, "device.complete") <= 1
    /\ result.state # "pending" =>
         /\ Count(trace, "device.complete") = 1
         /\ trace[Len(trace)].op = "device.complete"

\* Reached: safeDisconnect settled through the fallback, having disconnected
\* the stashed device's GATT.
C1_Witness ==
  /\ fn = "safeDisconnect" /\ Settled
  /\ "gatt.disconnect" \in Ops(trace)
  /\ Count(trace, "device.complete") = 1

\* C2. After safeDisconnect settles on a BLE device whose transport carries a
\* stashed BluetoothDevice, that device's GATT is not connected and the
\* transport's toDevice stream is closed, whichever way device.disconnect()
\* ended.
C2_TornDown ==
  (/\ fn = "safeDisconnect" /\ Settled
   /\ held.transport.kind = "ble"
   /\ held.transport.stash \in BtIds)
    => /\ ~bt[held.transport.stash].connected
       /\ held.transport.closed

\* C3. The promise returned by safeDisconnect never rejects: once settled it
\* is resolved, whatever device.disconnect(), toDevice.close(),
\* gatt.disconnect() or device.complete() threw.
C3_NeverRejects ==
  fn = "safeDisconnect" =>
    /\ result.state # "rejected"
    /\ Settled => result.state = "resolved"

\* Reached: safeDisconnect settled after toDevice.close() rejected (the stream
\* is still open) and device.complete() threw (the device is not completed).
C3_Witness ==
  /\ fn = "safeDisconnect" /\ Settled
  /\ "toDevice.close" \in Ops(trace)
  /\ ~held.transport.closed
  /\ ~held.completed

CreateOps ==
  {"TransportWebBluetooth.createFromDevice", "TransportWebBluetooth.prepareConnection"}

\* C5. Whenever reconnectBle creates a transport from the chosen target, the
\* target's GATT is not connected at that moment; and if it was connected when
\* chosen, gatt.disconnect() was called and the wait elapsed before the
\* creation started.
C5_StaleGattDisconnected ==
  fn = "reconnectBle" =>
    \A i \in 1..Len(trace) :
      trace[i].op \in CreateOps =>
        /\ ~trace[i].live
        /\ (\E c \in 1..(i - 1) : trace[c].op = "target" /\ trace[c].live) =>
             \E j, k \in 1..(i - 1) :
               /\ j < k
               /\ trace[j].op = "gatt.disconnect" /\ trace[j].dev = trace[i].dev
               /\ trace[k].op = "timeout"

\* C6. reconnectBle chooses a permitted device that has a GATT object and is
\* not connected if there is one, otherwise one that has a GATT object; if no
\* permitted device has a GATT object it rejects with "No previously connected
\* BLE device found for reconnection", having disconnected nothing and created
\* no transport and no MeshDevice.
C6_TargetSelection ==
  [][RbGetDevicesResolved =>
       LET withGatt == {d \in BtIds : bt[d].permitted /\ bt[d].gatt}
           free == {d \in withGatt : ~bt[d].connected}
       IN  /\ free # {} => target' \in free
           /\ (free = {} /\ withGatt # {}) => target' \in withGatt
           /\ withGatt = {} =>
                /\ result'.state = "rejected"
                /\ result'.error = MsgNoDevice
                /\ bt' = bt
                /\ Ops(trace') = {"navigator.bluetooth.getDevices"}
           /\ withGatt # {} => result'.error # MsgNoDevice]_vars

\* Reached: device 2 was chosen, disconnected, although device 1, earlier in
\* the list, has a GATT object too: it is connected.
C6_Witness ==
  /\ fn = "reconnectBle"
  /\ target = 2
  /\ \E i \in 1..Len(trace) : trace[i].op = "target" /\ ~trace[i].live
  /\ bt[1].permitted /\ bt[1].gatt /\ bt[1].connected

FactoryOps ==
  {"TransportWebBluetooth.create", "TransportWebSerial.create", "TransportHTTP.create"}

\* C7. createConnection creates at most one transport, of the requested type
\* ('ble' Bluetooth, 'serial' serial, 'http' HTTP); when it resolves it has
\* created exactly one and the MeshDevice it returns wraps it; for 'http' with
\* a missing or empty address, and for an unknown type, it rejects having
\* created no transport and no MeshDevice.
C7_OneMatchingTransport ==
  fn = "createConnection" =>
    LET made == {i \in 1..Len(trace) : trace[i].op \in FactoryOps}
        a == args.httpAddress
    IN  /\ Cardinality(made) <= 1
        /\ \A i \in made :
             /\ args.type = "ble" <=> trace[i].op = "TransportWebBluetooth.create"
             /\ args.type = "serial" <=> trace[i].op = "TransportWebSerial.create"
             /\ args.type = "http" <=> trace[i].op = "TransportHTTP.create"
        /\ result.state = "resolved" =>
             /\ Cardinality(made) = 1
             /\ Count(trace, "new MeshDevice") = 1
             /\ result.device.transport.kind = args.type
        /\ ((args.type = "http" /\ (~a.defined \/ a.text = <<>>))
              \/ args.type \notin {"ble", "serial", "http"}) =>
             /\ result.state = "rejected"
             /\ made = {}
             /\ Count(trace, "new MeshDevice") = 0

\* Reached: createConnection('http', "") has rejected.
C7_Witness ==
  /\ fn = "createConnection" /\ Settled
  /\ args.type = "http" /\ args.httpAddress = Str(<<>>)
  /\ result.state = "rejected"

\* C8. createConnection never calls device.configure(): the device it
\* resolves with, on the ble, serial and http paths, is not configured.
C8_NotConfigured ==
  fn = "createConnection" =>
    /\ "device.configure" \notin Ops(trace)
    /\ result.state = "resolved" => ~result.device.configured

\* Reached: createConnection('ble') has resolved with a device whose transport
\* carries the stashed BluetoothDevice.
C8_Witness ==
  /\ fn = "createConnection" /\ Settled
  /\ result.state = "resolved"
  /\ result.device.transport.kind = "ble"
  /\ result.device.transport.stash \in BtIds

\* The callbacks the claim is about, and the dialogs that may invoke each.
GuardedCallbacks ==
  {"onReboot", "onShutdown", "onResetNodeDb", "onFactoryReset", "onRemoveNode",
   "clearMessages", "clearNodes", "clearSessionData"}

DialogsFor(cb) ==
  CASE cb = "onReboot" -> {"Reboot"}
    [] cb = "onShutdown" -> {"Shutdown"}
    [] cb = "onResetNodeDb" -> {"Reset NodeDB"}
    [] cb = "onFactoryReset" -> {"Factory Reset"}
    [] cb = "onRemoveNode" -> {"Remove Node"}
    [] cb = "clearMessages" -> {"Clear Messages", "Clear All Data"}
    [] cb = "clearNodes" -> {"Clear Nodes", "Clear All Data"}
    [] cb = "clearSessionData" -> {"Clear All Data"}
    [] OTHER -> {}

\* C4. onReboot, onShutdown, onResetNodeDb, onFactoryReset, onRemoveNode and
\* the local clear operations are invoked only by pressing Confirm in a dialog
\* open for that command (or as the next step of an action so confirmed, a
\* confirmed action being the only thing put in flight); a dialog opens only
\* on a click; Cancel and the backdrop close the dialog and invoke nothing.
C4_ConfirmedOnly ==
  [][/\ (lastCall' # lastCall /\ lastCall'.cb \in GuardedCallbacks) =>
          \/ /\ uiEvent' = "confirm"
             /\ pendingAction.name \in DialogsFor(lastCall'.cb)
             /\ pendingAction' = NoAction
          \/ /\ uiEvent' = "settle"
             /\ \E k \in 1..Len(inflight) :
                  inflight[k].name \in DialogsFor(lastCall'.cb)
     /\ Len(inflight') > Len(inflight) =>
          /\ uiEvent' = "confirm"
          /\ inflight'[Len(inflight')].name = pendingAction.name
     /\ (pendingAction' # pendingAction /\ pendingAction' # NoAction) =>
          uiEvent' = "click"
     /\ uiEvent' \in {"cancel", "backdrop"} =>
          /\ pendingAction' = NoAction
          /\ lastCall' = lastCall
          /\ inflight' = inflight]_vars

\* Reached: Confirm was pressed in the Remove Node dialog and onRemoveNode was
\* invoked with the node parsed from "!a".
C4_Witness ==
  /\ uiEvent = "confirm"
  /\ pendingAction = NoAction
  /\ lastCall.cb = "onRemoveNode" /\ lastCall.arg = 10

\* C9. Once a moveend or zoomend has been recorded, every later mount of
\* MapPanel starts the map at the center and zoom recorded last, not at the
\* first node's position nor at the default center and zoom: a mount with a
\* saved view uses it; the saved view is written only by the handlers, as the
\* view the map then has; node updates, unmounts and mounts leave it as it is,
\* and once written it is never null again.
C9_ViewPersists ==
  [][/\ (~mounted /\ mounted' /\ savedCenter # <<>>) =>
          /\ mapCenter' = savedCenter[1]
          /\ mapZoom' = savedZoom[1]
     /\ (savedCenter' # savedCenter \/ savedZoom' # savedZoom) =>
          /\ mounted /\ mounted'
          /\ savedCenter' = <<mapCenter'>>
          /\ savedZoom' = <<mapZoom'>>
     /\ savedCenter # <<>> => (savedCenter' # <<>> /\ savedZoom' # <<>>)
     /\ (nodes' # nodes \/ mounted' # mounted) =>
          (savedCenter' = savedCenter /\ savedZoom' = savedZoom)]_vars

\* Reached: MapPanel was mounted again and the map is at the saved view, zoom
\* 0, while the first node with a position is elsewhere.
C9_Witness ==
  /\ mounted
  /\ lastFittedCount = 0
  /\ savedZoom = <<0>>
  /\ mapZoom = 0
  /\ mapCenter = savedCenter[1]
  /\ NodePositions # <<>>
  /\ CenterOf(NodePositions[1]) # mapCenter

\* C10. Once the user has panned or zoomed by hand, userHasInteracted is true
\* and stays true, and MapFitter issues no flyTo or flyToBounds any more,
\* whatever mounts, unmounts and node changes follow.
C10_ViewLocked ==
  [][/\ userMoved' => userHasInteracted'
     /\ userHasInteracted => userHasInteracted'
     /\ userMoved => (userMoved' /\ fit' = fit)]_vars

\* Reached: after the user moved the map, MapPanel is mounted with two
\* positioned nodes, none of them fitted.
C10_Witness ==
  /\ userMoved
  /\ mounted
  /\ Len(NodePositions) = 2
  /\ lastFittedCount = 0
  /\ fit.kind = "none"

\* C14. userHasInteracted is true only if the user has panned or zoomed the
\* map by hand: the move that ends MapFitter's own flyTo or flyToBounds does
\* not set it.
C14_OnlyManual ==
  userHasInteracted => userMoved

\* The fit MapFitter issues for the positions ps.
FitFor(ps) ==
  [kind |-> IF Len(ps) = 1 THEN "flyTo" ELSE "flyToBounds",
   n |-> Len(ps), at |-> ps, tick |-> 1 - fit.tick]

\* C15. While the user has not panned or zoomed, each time the number of
\* positioned nodes of the mounted MapPanel rises above the largest count
\* fitted so far, MapFitter issues exactly one fit, a flyTo for one position
\* and a flyToBounds for more; it issues none when the count is zero, the
\* same or smaller.
C15_FitOnIncrease ==
  [][(mounted' /\ ~userMoved /\ ~userMoved') =>
       LET n == Len(NodePositions')
           rises == ~mounted \/ n > Len(NodePositions)
           last == IF mounted THEN lastFittedCount ELSE 0
       IN  IF rises /\ n > last
           THEN fit' = FitFor(NodePositions')
           ELSE fit' = fit]_vars

\* C16. When MapPanel is mounted again with the positioned nodes MapFitter
\* fitted in an earlier mount, MapFitter issues no flyTo or flyToBounds.
C16_FitOnFirstMountOnly ==
  [][(~mounted /\ mounted' /\ fit.kind # "none" /\ fit.at = NodePositions') =>
       fit' = fit]_vars

\* A reaction, as the claims put it: a non-zero emoji and a non-zero replyId.
ReactsTo(m) == m.emoji \notin {Absent, 0} /\ m.replyId \notin {Absent, 0}

\* C11. In a channel view the visible list holds only messages of the list
\* that are no reactions and have no destination and, unless "All" is
\* selected, are on the selected channel; in the DM view it holds only
\* messages the local node sent to the active DM node or the active DM node
\* sent to the local node.
C11_StreamsSeparated ==
  \A i \in 1..Len(Visible) :
    LET m == Visible[i]
    IN  /\ InSeq(messages, m)
        /\ IF viewMode = "dm"
           THEN /\ activeDmNode \in Peers \cup {Me}
                /\ \/ m.sender_id = myNodeNum /\ m.to = activeDmNode
                   \/ m.sender_id = activeDmNode /\ m.to = myNodeNum
           ELSE /\ ~ReactsTo(m)
                /\ m.to = Absent
                /\ channel = AllChannels \/ m.channel = channel

\* Reached: the DM view shows one of two messages, the other being a DM a
\* third node sent to the active DM node.
C11_Witness ==
  /\ viewMode = "dm"
  /\ myNodeNum = Me
  /\ Len(messages) = 2
  /\ Len(Visible) = 1
  /\ \E i \in 1..2 : messages[i].to = activeDmNode /\ messages[i].sender_id # Me

\* The number of unread messages of channel c, the list being msgs, the local
\* node my and the last-read times lr.
UnreadOf(msgs, my, lr, c) ==
  Cardinality({i \in 1..Len(msgs) :
                 /\ ~ReactsTo(msgs[i])
                 /\ msgs[i].to = Absent
                 /\ msgs[i].sender_id # my
                 /\ msgs[i].channel = c
                 /\ msgs[i].timestamp > (IF c \in DOMAIN lr THEN lr[c] ELSE 0)})

C13_ReactionsSeparated ==
  LET regular == RegularMessages(messages)
      reactions == ReactionsByReplyId(messages)
      plain == {i \in 1..Len(messages) : ~ReactsTo(messages[i])}
      nth(k) == CHOOSE i \in plain : Cardinality({j \in plain : j <= i}) = k
  IN  /\ Len(regular) = Cardinality(plain)
      /\ \A k \in 1..Len(regular) : regular[k] = messages[nth(k)]
      /\ \A i \in (1..Len(messages)) \ plain :
           /\ messages[i].replyId \in DOMAIN reactions
           /\ \E j \in 1..Len(reactions[messages[i].replyId]) :
                reactions[messages[i].replyId][j] =
                  [emoji |-> messages[i].emoji, sender_name |-> messages[i].sender_name]
           /\ \A k \in 1..Len(regular) : regular[k] # messages[i]
      /\ \A r \in DOMAIN reactions :
           Len(reactions[r]) =
             Cardinality({i \in (1..Len(messages)) \ plain : messages[i].replyId = r})

\* Reached: a reaction, then a message with an emoji and a replyId of 0.
C13_Witness ==
  /\ Len(messages) = 2
  /\ ReactsTo(messages[1])
  /\ messages[2].emoji = 1
  /\ messages[2].replyId = 0
  /\ Len(RegularMessages(messages)) = 1
  /\ DOMAIN ReactionsByReplyId(messages) = {messages[1].replyId}

\* C18. In a channel view, unreadCounts has no entry for the channel viewed,
\* whichever way the message list changed.
C18_ViewedIsRead ==
  viewMode = "channels" => channel \notin DOMAIN unreadCounts

\* What the reply clearing effect watches.
ChatView == <<channel, viewMode, activeDmNode>>

\* C17. Whenever the selected channel, the view mode or the active DM node
\* changes, replyingTo is null afterwards; replyingTo gets a message only
\* from the list on screen, the view staying as it is; and handleSend gives
\* onSend the packetId of replyingTo, or none when replyingTo is null.
C17_ReplyCleared ==
  [][/\ ChatView' # ChatView => replyingTo' = <<>>
     /\ (replyingTo' # <<>> /\ replyingTo' # replyingTo) =>
          /\ ChatView' = ChatView
          /\ InSeq(Visible, replyingTo'[1])
     /\ (sending = <<>> /\ sending' # <<>>) =>
          sending'[1].replyId =
            IF replyingTo = <<>> THEN Absent ELSE replyingTo[1].packetId]_vars

\* Reached: a reply was sent from a channel view and onSend has not settled;
\* the view is now the DM view, and replyingTo is null.
C17_Witness ==
  /\ sending # <<>>
  /\ sending[1].destination = Absent
  /\ sending[1].replyId = 1
  /\ viewMode = "dm"
  /\ activeDmNode = 2
  /\ replyingTo = <<>>

\* C19. A step that closes a DM tab removes that tab and no other.  If it was
\* the active one, the last tab that remains becomes the active one, or, none
\* remaining, activeDmNode is null and the view is the channel view; if it
\* was not, activeDmNode and viewMode are as before.
C19_CloseDmTab ==
  [][Len(openDmTabs') < Len(openDmTabs) =>
       \E i \in 1..Len(openDmTabs) :
         /\ openDmTabs' =
              SubSeq(openDmTabs, 1, i - 1) \o SubSeq(openDmTabs, i + 1, Len(openDmTabs))
         /\ channel' = channel
         /\ IF activeDmNode = openDmTabs[i]
            THEN IF openDmTabs' # <<>>
                 THEN activeDmNode' = openDmTabs'[Len(openDmTabs')]
                 ELSE activeDmNode' = Absent /\ viewMode' = "channels"
            ELSE activeDmNode' = activeDmNode /\ viewMode' = viewMode]_vars

\* Reached: three tabs are open and the middle one is active, so that closing
\* it leaves two tabs, the last of which is not the first.
C19_Witness ==
  /\ Len(openDmTabs) = 3
  /\ activeDmNode = openDmTabs[2]
  /\ viewMode = "dm"

====
